---------------------------- MODULE Spec2Model ----------------------------
(***************************************************************************)
(* A model of mcp-clickhouse: the process-wide pool/client slot managed by *)
(* with_clickhouse, the HTTPDictCursor row buffer, the db_fetchone /       *)
(* db_fetchall facade, the execute_query tool and the BaseStructure        *)
(* row-to-record mapper.                                                   *)
(*                                                                         *)
(* Python values are modelled as records of one shape, so that any two can *)
(* be compared: a scalar v is Scalar(v), a dict is Nested(items) with      *)
(* items an association list << <<key, value>>, ... >> in insertion order. *)
(* A column name (a Python str) is the sequence of its lexical tokens: the *)
(* sigil "@", the separator "." and the name fragments between them, so    *)
(* "@a.b" is <<"@", "a", ".", "b">>.                                       *)
(***************************************************************************)
EXTENDS Integers, Sequences, FiniteSets, TLC

\* ---------------------------------------------------------------- bounds
MaxRowLen == 3      \* keys of a row handed to from_row
MaxOps == 4         \* calls made on the shared cursor, each by its own task
MaxCalls == 3       \* calls made by facade callers beside the shared cursor
MaxRespRows == 2    \* rows of one response of the client
MaxScopes == 2      \* with_clickhouse scopes entered
MaxLiveOps == 3     \* calls on the shared cursor where completion is checked
MaxInvocations == 2 \* db_fetchone / db_fetchall calls in flight together
MaxTables == 3      \* tables of the database that list_tables lists

\* --------------------------------------------------------- Python values
None == [kind |-> "None", val |-> 0, items |-> <<>>]
Scalar(v) == [kind |-> "scalar", val |-> v, items |-> <<>>]
Nested(items) == [kind |-> "dict", val |-> 0, items |-> items]

\* dict: an association list, keys distinct, in insertion order
DictHas(d, k) == \E i \in 1..Len(d) : d[i][1] = k
DictIndex(d, k) == CHOOSE i \in 1..Len(d) : d[i][1] = k
DictGet(d, k) == d[DictIndex(d, k)][2]
DictKeys(d) == {d[i][1] : i \in 1..Len(d)}
\* d[k] = v : an existing key keeps its place, a new key goes last
DictSet(d, k, v) ==
    IF DictHas(d, k) THEN [d EXCEPT ![DictIndex(d, k)] = <<k, v>>]
    ELSE Append(d, <<k, v>>)
\* d.pop(k), for a key that is present
DictPop(d, k) ==
    LET Keep(e) == e[1] # k IN SelectSeq(d, Keep)

RECURSIVE DictUpdateFrom(_, _, _)
DictUpdateFrom(d, other, i) ==
    IF i > Len(other) THEN d
    ELSE DictUpdateFrom(DictSet(d, other[i][1], other[i][2]), other, i + 1)

\* a plausible slip: update that keeps the value already stored under a key
RECURSIVE DictUpdateKeepOld(_, _, _)
DictUpdateKeepOld(d, other, i) ==
    IF i > Len(other) THEN d
    ELSE DictUpdateKeepOld(
            IF DictHas(d, other[i][1]) THEN d
            ELSE DictSet(d, other[i][1], other[i][2]),
            other, i + 1)
DictUpdateFlatWins(d, other) == DictUpdateKeepOld(d, other, 1)

\* d.update(other)
DictUpdate(d, other) == DictUpdateFrom(d, other, 1)

\* ------------------------------------------------------------ str helpers
StartsWithSigil(key) == Len(key) > 0 /\ key[1] = "@"
RemovePrefixSigil(key) == IF StartsWithSigil(key) THEN Tail(key) ELSE key
HasSep(key) == \E i \in 1..Len(key) : key[i] = "."
FirstSep(key) ==
    CHOOSE i \in 1..Len(key) :
        key[i] = "." /\ \A j \in 1..(i - 1) : key[j] # "."
\* key.split('.')
RECURSIVE Split(_)
Split(key) ==
    IF ~HasSep(key) THEN <<key>>
    ELSE <<SubSeq(key, 1, FirstSep(key) - 1)>>
            \o Split(SubSeq(key, FirstSep(key) + 1, Len(key)))

\* ------------------------------------------------- BaseStructure.from_row
\* cls(**row): the record built from the keyword mapping (keyword order is
\* immaterial, so the record is the function from field name to value)
Cls(kwargs) ==
    [kind |-> "record",
     fields |-> [k \in DictKeys(kwargs) |-> DictGet(kwargs, k)]]
Raised(exc) == [kind |-> exc, fields |-> <<>>]

\* the sigil branch of the loop body: row[key.removeprefix('@')] = row.pop(key)
StripSigil(r, key, value) ==
    IF StartsWithSigil(key)
    THEN DictSet(DictPop(r, key), RemovePrefixSigil(key), value)
    ELSE r

\* dct.setdefault(parent, {})[child] = value
SetChild(dct, parent, child, value) ==
    LET old == IF DictHas(dct, parent) THEN DictGet(dct, parent).items ELSE <<>>
    IN DictSet(dct, parent, Nested(DictSet(old, child, value)))

\* the loop over row.copy().items(), from the i-th item on; r is the row
\* being rewritten and dct the nested mappings collected so far
RECURSIVE FromRowLoop(_, _, _, _)
FromRowLoop(items, i, r, dct) ==
    IF i > Len(items) THEN Cls(DictUpdate(r, dct))
    ELSE
        LET key == items[i][1]
            value == items[i][2]
            r1 == StripSigil(r, key, value)
        IN  IF ~HasSep(key) THEN FromRowLoop(items, i + 1, r1, dct)
            ELSE IF Len(Split(key)) # 2 THEN Raised("ValueError")
            ELSE IF ~DictHas(r1, key) THEN Raised("KeyError")
            ELSE FromRowLoop(items, i + 1, DictPop(r1, key),
                             SetChild(dct, Split(key)[1], Split(key)[2], value))

from_row(r) == FromRowLoop(r, 1, r, <<>>)

\* BaseStructure.from_rows: the comprehension stops at the first row that raises
RECURSIVE FromRowsFrom(_, _, _)
FromRowsFrom(rows, i, acc) ==
    IF i > Len(rows) THEN [kind |-> "list", list |-> acc]
    ELSE IF from_row(rows[i]).kind # "record"
         THEN [kind |-> from_row(rows[i]).kind, list |-> <<>>]
         ELSE FromRowsFrom(rows, i + 1, Append(acc, from_row(rows[i])))
\* a plausible slip: only the first row is mapped
from_rows_first(rows) == FromRowsFrom(SubSeq(rows, 1, 1), 1, <<>>)
from_rows(rows) == FromRowsFrom(rows, 1, <<>>)

\* ------------------------------------------------------ mapper inputs
Keys ==
    { <<"a">>, <<"b">>, <<"@", "a">>, <<"a", ".", "b">>, <<"a", ".", "c">>,
      <<"b", ".", "c">>, <<"@", "a", ".", "b">>, <<"a", ".", "b", ".", "c">> }
Values == {Scalar(1), Scalar(2)}
DistinctKeys(r) == \A i, j \in 1..Len(r) : i # j => r[i][1] # r[j][1]
Rows ==
    { r \in UNION { [1..n -> Keys \X Values] : n \in 0..MaxRowLen } :
        DistinctKeys(r) }

\* ------------------------------------------------------- client responses
Marker == <<"total_rows_to_read">>
DataColumns == << <<"r", ".", "id">> >>
\* the value that tells the i-th row of call q's answer from every other row
RowId(q, i) == 10 * q + i
NoResponse == [kind |-> "none", column_names |-> <<>>, result_rows |-> <<>>]
\* the answer to the query of call q with n data rows
DataResponse(q, n) ==
    [kind |-> "result", column_names |-> DataColumns,
     result_rows |-> [i \in 1..n |-> <<Scalar(RowId(q, i))>>]]
\* a progress-only answer: the marker column, alone or beside another column
MetaResponse(q, wide) ==
    [kind |-> "result",
     column_names |-> IF wide THEN << <<"q">>, Marker >> ELSE << Marker >>,
     result_rows |-> IF wide THEN << <<Scalar(RowId(q, 1)), Scalar(1)>> >>
                     ELSE << <<Scalar(1)>> >>]
\* the query raises (malformed SQL, transport error after the pool's retries)
ErrorResponse == [kind |-> "error", column_names |-> <<>>, result_rows |-> <<>>]
Responses(q) ==
    {DataResponse(q, n) : n \in 0..MaxRespRows}
        \cup {MetaResponse(q, w) : w \in BOOLEAN} \cup {ErrorResponse}

\* QueryResult.named_results(): one dict per row, zip(column_names, row)
NamedRow(cols, tuple) == [j \in 1..Len(cols) |-> <<cols[j], tuple[j]>>]
named_results(resp) ==
    [i \in 1..Len(resp.result_rows) |->
        NamedRow(resp.column_names, resp.result_rows[i])]
IsMeta(resp) == \E j \in 1..Len(resp.column_names) : resp.column_names[j] = Marker

\* ------------------------------------------------------- what a call gives
Pending == [kind |-> "pending", rows |-> <<>>, cols |-> <<>>, exc |-> "", cause |-> ""]
ReturnNone == [Pending EXCEPT !.kind = "None"]
ReturnRow(r) == [Pending EXCEPT !.kind = "row", !.rows = <<r>>]
ReturnList(l) == [Pending EXCEPT !.kind = "list", !.rows = l]
ReturnDict(cols, rows) == [Pending EXCEPT !.kind = "dict", !.cols = cols, !.rows = rows]
Raise(exc, cause) == [Pending EXCEPT !.kind = "raise", !.exc = exc, !.cause = cause]

\* ------------------------------------------------ HTTPDictCursor buffer ops
\* a plausible slip: results.pop() takes the newest row
fetchone_lifo(buf) ==
    IF buf # <<>>
    THEN [ret |-> ReturnRow(buf[Len(buf)]), results |-> SubSeq(buf, 1, Len(buf) - 1)]
    ELSE [ret |-> ReturnNone, results |-> buf]
\* fetchone's critical section: results.pop(0) if results else None
fetchone(buf) ==
    IF buf # <<>>
    THEN [ret |-> ReturnRow(Head(buf)), results |-> Tail(buf)]
    ELSE [ret |-> ReturnNone, results |-> buf]

\* a plausible slip: the buffer is returned but not cleared
fetchall_noclear(buf) == [ret |-> ReturnList(buf), results |-> buf]
\* fetchall's critical section: dump = results.copy(); results.clear()
fetchall(buf) == [ret |-> ReturnList(buf), results |-> <<>>]

\* a plausible slip: results = list(named_results()) instead of extend
ExtendOverwrite(buf, rows, k) == IF k = 1 THEN <<rows[k]>> ELSE Append(buf, rows[k])
\* a plausible slip: the marker test is dropped, so pseudo-rows are buffered
NeverMeta(resp) == FALSE
\* results.extend(generator): the k-th row of the response goes last
ExtendRow(buf, rows, k) == Append(buf, rows[k])
\* "total_rows_to_read" in result.column_names
Discarded(resp) == IsMeta(resp)

CursorTasks == 1..MaxOps
FacadeTasks == 1..MaxCalls
\* the server specification has one caller at a time; callers in flight
\* together are the subject of SpecFacade
ServerTasks == {1}
SharedCursor == 0
Scopes == 1..MaxScopes

VARIABLES
    http_pool,          \* db_utils.http_pool: 0 (None) or the pool's id
    http_client,        \* db_utils.http_client: 0 (None) or the client's id
    main_http_client,   \* main.http_client, bound by main's import
    debug,              \* __debug__: assert statements are executed
    pools,              \* each pool: "unbuilt", "live" or "cleared"
    scope,              \* each with_clickhouse context's position
    results,            \* each cursor's results list
    lock,               \* each cursor's lock: 0 or the task holding it
    session_id,         \* each cursor's session_id
    task,               \* each task's call in progress
    appended,           \* history: every row appended to each cursor, in order
    delivered,          \* history: every <<row, op>> a fetch removed, in order
    row,                \* mapper: the row handed to from_row
    record              \* mapper: what from_row gave

session == <<http_pool, http_client, main_http_client, debug, pools, scope>>
cursors == <<results, lock, session_id, appended, delivered>>
mapper == <<row, record>>
vars == <<session, cursors, task, mapper>>

IdleTask ==
    [op |-> "none", pc |-> "idle", cur |-> 0, sent |-> <<>>, resp |-> NoResponse,
     ret |-> Pending, k |-> 0,
     \* list_tables: its `tables` list, and every answer its queries got
     tables |-> <<>>, answers |-> <<>>,
     \* history: the scopes' standing when the call was made
     entered |-> FALSE, active |-> FALSE, published |-> 0]

NoRecord == [kind |-> "pending", fields |-> <<>>]

\* the module state once db_utils and main are imported: no pool, no client;
\* main's `from db_utils import http_client` copies the None of that moment
InitIdle(tasks) ==
    /\ http_pool = 0 /\ http_client = 0 /\ main_http_client = 0
    /\ pools = [p \in Scopes |-> "unbuilt"]
    /\ scope = [s \in Scopes |-> "idle"]
    /\ results = [c \in {SharedCursor} \cup tasks |-> <<>>]
    /\ lock = [c \in {SharedCursor} \cup tasks |-> 0]
    /\ session_id = [c \in {SharedCursor} \cup tasks |-> 0]
    /\ task = [t \in tasks |-> IdleTask]
    /\ appended = [c \in {SharedCursor} \cup tasks |-> <<>>]
    /\ delivered = [c \in {SharedCursor} \cup tasks |-> <<>>]

Init == InitIdle(ServerTasks) /\ debug \in BOOLEAN /\ row = <<>> /\ record = NoRecord

\* ---------------------------------------------------------- with_clickhouse
\* entry: http_pool = get_pool_manager(...), then get_http_client() is called
\* (its pool_mgr argument is the pool just published) and awaited; or the
\* pool's construction raises and nothing is assigned
EnterScope(s) ==
    /\ scope[s] = "idle"
    /\ IF s = 1 THEN TRUE ELSE scope[s - 1] # "idle"
    /\ \/ /\ http_pool' = s
          /\ pools' = [pools EXCEPT ![s] = "live"]
          /\ scope' = [scope EXCEPT ![s] = "building"]
       \/ /\ scope' = [scope EXCEPT ![s] = "failed"]
          /\ UNCHANGED <<http_pool, pools>>
    /\ UNCHANGED <<http_client, main_http_client, debug, cursors, task, mapper>>

\* http_client = await get_http_client(); the body starts (yield)
ClientBuilt(s) ==
    /\ scope[s] = "building"
    /\ http_client' = s
    /\ scope' = [scope EXCEPT ![s] = "active"]
    /\ UNCHANGED <<http_pool, main_http_client, debug, pools, cursors, task, mapper>>

\* a plausible slip: the failure of get_http_client() is swallowed and the
\* body runs without a client
ClientFailedBodyRuns(s) ==
    /\ scope[s] = "building"
    /\ scope' = [scope EXCEPT ![s] = "active"]
    /\ UNCHANGED <<http_pool, http_client, main_http_client, debug, pools, cursors,
                   task, mapper>>

\* get_http_client() raises: the exception leaves with_clickhouse before its
\* try block is entered
ClientFailed(s) ==
    /\ scope[s] = "building"
    /\ scope' = [scope EXCEPT ![s] = "failed"]
    /\ UNCHANGED <<http_pool, http_client, main_http_client, debug, pools, cursors,
                   task, mapper>>

\* a plausible slip: the finally block forgets to reset http_pool
PoolAfterExitKept == http_pool
\* the finally block's last statement: http_pool = None
PoolAfterExit == 0

\* the body returns or raises: the finally block runs
ExitScope(s) ==
    /\ scope[s] = "active"
    /\ \E how \in {"exited", "raised"} : scope' = [scope EXCEPT ![s] = how]
    /\ pools' = IF http_pool # 0 THEN [pools EXCEPT ![http_pool] = "cleared"] ELSE pools
    /\ http_pool' = PoolAfterExit
    /\ UNCHANGED <<http_client, main_http_client, debug, cursors, task, mapper>>

\* ------------------------------------------------------------------- calls
Tasks == DOMAIN task
\* a plausible slip: the extend is not guarded by the lock
LockIgnored(c) == TRUE
\* with self.lock: entered only when no other task holds the lock
LockFree(c) == lock[c] = 0
\* str(uuid.uuid4()) for cursor c: an id no other cursor in existence has
\* (the least such, so that the ids stay in a finite set)
uuid4(c) ==
    CHOOSE u \in 1..(Cardinality(DOMAIN session_id) + 1) :
        /\ \A d \in DOMAIN session_id \ {c} : session_id[d] # u
        /\ \A v \in 1..(u - 1) : \E d \in DOMAIN session_id \ {c} : session_id[d] = v
\* a plausible slip: one module-level cursor serves every facade call
ModuleCursor(t) == SharedCursor
\* HTTPDictCursor(): the cursor object of task t's facade call
NewCursor(t) == t
Call(op, c) ==
    [IdleTask EXCEPT !.op = op, !.cur = c,
        !.entered = \E s \in Scopes : scope[s] \in {"building", "active"},
        !.active = \E s \in Scopes : scope[s] = "active",
        !.published = http_client]
Done(tk, ret) == [tk EXCEPT !.pc = "done", !.ret = ret]
\* a query as a client receives it
Query(client, sid, timeout) ==
    [client |-> client, session |-> sid, timeout |-> timeout,
     live |-> pools[client] = "live"]

\* HTTPDictCursor.execute up to its await: the scope test, then the query is
\* handed to the published client with the cursor's session id
ExecuteCall(t, op, c, sid) ==
    task' = [task EXCEPT ![t] =
        IF http_client = 0
        THEN Done(Call(op, c), Raise("RuntimeError", ""))
        ELSE [Call(op, c) EXCEPT !.pc = "awaiting",
                                 !.sent = <<Query(http_client, sid, FALSE)>>]]

\* on the shared cursor each task makes one call, the t-th task the t-th call
CanStartShared(t) ==
    task[t].pc = "idle" /\ (IF t = 1 THEN TRUE ELSE task[t - 1].pc # "idle")

\* cursor.execute(query) on the shared cursor
StartExecute(t) ==
    /\ CanStartShared(t)
    /\ ExecuteCall(t, "execute", SharedCursor, session_id[SharedCursor])
    /\ UNCHANGED <<session, cursors, mapper>>

Tagged(rows, op) == [i \in 1..Len(rows) |-> <<rows[i], op>>]

\* cursor.fetchone() on the shared cursor: no await inside, one step
StartFetchone(t) ==
    /\ CanStartShared(t)
    /\ LockFree(SharedCursor)
    /\ LET f == fetchone(results[SharedCursor]) IN
        /\ results' = [results EXCEPT ![SharedCursor] = f.results]
        /\ delivered' = [delivered EXCEPT ![SharedCursor] = @ \o Tagged(f.ret.rows, "fetchone")]
        /\ task' = [task EXCEPT ![t] = Done(Call("fetchone", SharedCursor), f.ret)]
    /\ UNCHANGED <<session, lock, session_id, appended, mapper>>

\* cursor.fetchall() on the shared cursor
StartFetchall(t) ==
    /\ CanStartShared(t)
    /\ LockFree(SharedCursor)
    /\ LET f == fetchall(results[SharedCursor]) IN
        /\ results' = [results EXCEPT ![SharedCursor] = f.results]
        /\ delivered' = [delivered EXCEPT ![SharedCursor] = @ \o Tagged(f.ret.rows, "fetchall")]
        /\ task' = [task EXCEPT ![t] = Done(Call("fetchall", SharedCursor), f.ret)]
    /\ UNCHANGED <<session, lock, session_id, appended, mapper>>

\* db_fetchone / db_fetchall up to the await inside execute: a fresh cursor
\* (empty buffer, new uuid, free lock), then execute's first half
StartFacade(t, op) ==
    /\ task[t].pc = "idle"
    /\ LET c == NewCursor(t) IN
        /\ results' = [results EXCEPT ![c] = <<>>]
        /\ lock' = [lock EXCEPT ![c] = 0]
        /\ session_id' = [session_id EXCEPT ![c] = uuid4(c)]
        /\ appended' = [appended EXCEPT ![c] = <<>>]
        /\ delivered' = [delivered EXCEPT ![c] = <<>>]
        /\ ExecuteCall(t, op, c, uuid4(c))
    /\ UNCHANGED <<session, mapper>>

StartDbFetchone(t) == StartFacade(t, "db_fetchone")
StartDbFetchall(t) == StartFacade(t, "db_fetchall")

\* the execute_query tool up to its await: the assert on main's own binding
\* (skipped when asserts are compiled out), then http_client.query(...) inside
\* the try block, where a None binding raises AttributeError
StartExecuteQuery(t) ==
    /\ task[t].pc = "idle"
    /\ task' = [task EXCEPT ![t] =
        IF debug /\ main_http_client = 0
        THEN Done(Call("execute_query", 0), Raise("AssertionError", ""))
        ELSE IF main_http_client = 0
        THEN Done(Call("execute_query", 0), Raise("ToolError", "AttributeError"))
        ELSE [Call("execute_query", 0) EXCEPT
                !.pc = "awaiting", !.sent = <<Query(main_http_client, 0, TRUE)>>]]
    /\ UNCHANGED <<session, cursors, mapper>>

\* the call's result has gone to the caller: its cursor is garbage and the
\* task is free for a new call
Return(t) ==
    /\ task[t].pc = "done"
    /\ task' = [task EXCEPT ![t] = IdleTask]
    /\ results' = [results EXCEPT ![t] = <<>>]
    /\ session_id' = [session_id EXCEPT ![t] = 0]
    /\ appended' = [appended EXCEPT ![t] = <<>>]
    /\ delivered' = [delivered EXCEPT ![t] = <<>>]
    /\ UNCHANGED <<session, lock, mapper>>

\* a plausible slip: the lock is acquired without `with` and never released
ExtendKeepLock(t, c, rows, k) ==
    /\ results' = [results EXCEPT ![c] = ExtendRow(@, rows, k)]
    /\ appended' = [appended EXCEPT ![c] = Append(@, rows[k])]
    /\ lock' = [lock EXCEPT ![c] = t]
    /\ IF k < Len(rows)
       THEN task' = [task EXCEPT ![t] = [@ EXCEPT !.pc = "extend", !.k = k + 1]]
       ELSE task' = [task EXCEPT ![t] = Done(@, ReturnNone)]

\* results.extend(result.named_results()) under the lock, a row at a time
\* (the argument is a generator): the k-th row is appended; the lock is held
\* while rows remain and released after the last one
Extend(t, c, rows, k) ==
    /\ results' = [results EXCEPT ![c] = ExtendRow(@, rows, k)]
    /\ appended' = [appended EXCEPT ![c] = Append(@, rows[k])]
    /\ IF k < Len(rows)
       THEN /\ lock' = [lock EXCEPT ![c] = t]
            /\ task' = [task EXCEPT ![t] = [@ EXCEPT !.pc = "extend", !.k = k + 1]]
       ELSE /\ lock' = [lock EXCEPT ![c] = 0]
            /\ task' = [task EXCEPT ![t] = Done(@, ReturnNone)]

\* the whole extend, as one task sees it on a cursor no other task can reach
RECURSIVE ExtendFrom(_, _, _)
ExtendFrom(buf, rows, k) ==
    IF k > Len(rows) THEN buf ELSE ExtendFrom(ExtendRow(buf, rows, k), rows, k + 1)

\* what db_fetchone / db_fetchall return from what the cursor gave
MapOne(ret) ==
    IF ret.kind = "None" THEN ReturnNone
    ELSE IF from_row(ret.rows[1]).kind = "record"
         THEN ReturnRow(from_row(ret.rows[1]))
         ELSE Raise(from_row(ret.rows[1]).kind, "")
\* a plausible slip: a failure of the mapping is swallowed and [] returned
MapAllSwallow(ret) ==
    IF ret.rows = <<>> THEN ReturnList(<<>>)
    ELSE IF from_rows(ret.rows).kind = "list"
         THEN ReturnList(from_rows(ret.rows).list)
         ELSE ReturnList(<<>>)
MapAll(ret) ==
    IF ret.rows = <<>> THEN ReturnList(<<>>)
    ELSE IF from_rows(ret.rows).kind = "list"
         THEN ReturnList(from_rows(ret.rows).list)
         ELSE Raise(from_rows(ret.rows).kind, "")

\* execute_query after its await: {columns, rows} of the result; an exception
\* of the query is wrapped in a ToolError that carries its message
ToolResume(t, r) ==
    /\ task' = [task EXCEPT ![t] =
        IF r.kind = "error"
        THEN Done([@ EXCEPT !.resp = r], Raise("ToolError", "QueryError"))
        ELSE Done([@ EXCEPT !.resp = r], ReturnDict(r.column_names, r.result_rows))]
    /\ UNCHANGED cursors

\* a plausible slip: the handler of a failed query resets the buffer
ExecuteResumeResetOnError(t, r) ==
    LET c == task[t].cur
        rows == named_results(r)
    IN  /\ IF r.kind = "error"
           THEN /\ task' = [task EXCEPT ![t] = Done([@ EXCEPT !.resp = r], Raise("QueryError", ""))]
                /\ results' = [results EXCEPT ![c] = <<>>]
                /\ UNCHANGED <<appended, lock>>
           ELSE IF Discarded(r) \/ rows = <<>>
           THEN /\ Discarded(r) \/ LockFree(c)
                /\ task' = [task EXCEPT ![t] = Done([@ EXCEPT !.resp = r], ReturnNone)]
                /\ UNCHANGED <<results, appended, lock>>
           ELSE /\ LockFree(c)
                /\ results' = [results EXCEPT ![c] = ExtendRow(@, rows, 1)]
                /\ appended' = [appended EXCEPT ![c] = Append(@, rows[1])]
                /\ IF 1 < Len(rows)
                   THEN /\ lock' = [lock EXCEPT ![c] = t]
                        /\ task' = [task EXCEPT ![t] = [@ EXCEPT !.pc = "extend", !.k = 2, !.resp = r]]
                   ELSE /\ UNCHANGED lock
                        /\ task' = [task EXCEPT ![t] = Done([@ EXCEPT !.resp = r], ReturnNone)]
        /\ UNCHANGED <<session_id, delivered>>

\* execute on the shared cursor after its await: the query's exception goes to
\* the caller; a meta result returns at once; any other enters the lock's
\* block and starts to extend the buffer
ExecuteResume(t, r) ==
    LET c == task[t].cur
        rows == named_results(r)
    IN  /\ IF r.kind = "error"
           THEN /\ task' = [task EXCEPT ![t] = Done([@ EXCEPT !.resp = r], Raise("QueryError", ""))]
                /\ UNCHANGED <<results, appended, lock>>
           ELSE IF Discarded(r) \/ rows = <<>>
           THEN /\ Discarded(r) \/ LockFree(c)
                /\ task' = [task EXCEPT ![t] = Done([@ EXCEPT !.resp = r], ReturnNone)]
                /\ UNCHANGED <<results, appended, lock>>
           ELSE /\ LockFree(c)
                /\ results' = [results EXCEPT ![c] = ExtendRow(@, rows, 1)]
                /\ appended' = [appended EXCEPT ![c] = Append(@, rows[1])]
                /\ IF 1 < Len(rows)
                   THEN /\ lock' = [lock EXCEPT ![c] = t]
                        /\ task' = [task EXCEPT ![t] = [@ EXCEPT !.pc = "extend", !.k = 2, !.resp = r]]
                   ELSE /\ UNCHANGED lock
                        /\ task' = [task EXCEPT ![t] = Done([@ EXCEPT !.resp = r], ReturnNone)]
        /\ UNCHANGED <<session_id, delivered>>

\* db_fetchone / db_fetchall after the await inside execute, to their return:
\* execute's second half, session.fetchone() or .fetchall(), the mapping. The
\* cursor is the call's own and nothing awaits, so this is one step
FacadeResume(t, r) ==
    LET c == task[t].cur
        rows == named_results(r)
        buf == IF Discarded(r) THEN results[c] ELSE ExtendFrom(results[c], rows, 1)
        f == IF task[t].op = "db_fetchone" THEN fetchone(buf) ELSE fetchall(buf)
    IN  IF r.kind = "error"
        THEN /\ task' = [task EXCEPT ![t] = Done([@ EXCEPT !.resp = r], Raise("QueryError", ""))]
             /\ UNCHANGED cursors
        ELSE /\ Discarded(r) \/ LockFree(c)
             /\ results' = [results EXCEPT ![c] = f.results]
             /\ appended' = [appended EXCEPT ![c] = IF Discarded(r) THEN @ ELSE @ \o rows]
             /\ delivered' = [delivered EXCEPT ![c] = @ \o Tagged(f.ret.rows, task[t].op)]
             /\ task' = [task EXCEPT ![t] =
                            Done([@ EXCEPT !.resp = r],
                                 IF @.op = "db_fetchone" THEN MapOne(f.ret) ELSE MapAll(f.ret))]
             /\ UNCHANGED <<lock, session_id>>

\* the client answers the query a task awaits, with a result or an exception,
\* and the task runs on to its next await or its return
ClientRespond(t) ==
    /\ task[t].pc = "awaiting"
    /\ \E r \in Responses(t) :
        IF task[t].op = "execute_query" THEN ToolResume(t, r)
        ELSE IF task[t].op = "execute" THEN ExecuteResume(t, r)
        ELSE FacadeResume(t, r)
    /\ UNCHANGED <<session, mapper>>

\* a result whose rows from_row cannot take: a column name with two separators
UnmappableColumns == << <<"a", ".", "b", ".", "c">> >>
UnmappableResponse(q, n) ==
    [kind |-> "result", column_names |-> UnmappableColumns,
     result_rows |-> [i \in 1..n |-> <<Scalar(RowId(q, i))>>]]
\* what the client may answer a facade call: also rows the mapper rejects
CallResponses(q) ==
    Responses(q) \cup {UnmappableResponse(q, n) : n \in 1..MaxRespRows}

\* the client answers the query a db_fetchone / db_fetchall call awaits, and
\* the call runs on to its return
ClientAnswers(t) ==
    /\ task[t].pc = "awaiting"
    /\ \E r \in CallResponses(t) : FacadeResume(t, r)
    /\ UNCHANGED <<session, mapper>>

\* the extend on the shared cursor goes on with its next row
ExtendStep(t) ==
    /\ task[t].pc = "extend"
    /\ Extend(t, task[t].cur, named_results(task[t].resp), task[t].k)
    /\ UNCHANGED <<session, session_id, delivered, mapper>>

\* ------------------------------------------------------------------ mapper
\* one call of from_row on the row
MapRow ==
    /\ record.kind = "pending"
    /\ record' = from_row(row)
    /\ UNCHANGED <<session, cursors, task, row>>

\* ------------------------------------------------------------- list_tables
\* one list_tables call at a time: its locals are its own; db_fetchall calls
\* in flight together are the subject of SpecCalls and SpecFacade
ListTasks == {1}
\* the table query has no `table` argument
NoTable == 0
\* a query of list_tables as the client receives it: what it selects
\* (system.tables or system.columns) and its `table` argument
ListQuery(client, sid, what, table) ==
    [client |-> client, session |-> sid, timeout |-> FALSE,
     live |-> pools[client] = "live", query |-> what, table |-> table]

\* system.tables of the database: n tables, named 1..n
TablesResponse(n) ==
    [kind |-> "result", column_names |-> << <<"name">> >>,
     result_rows |-> [i \in 1..n |-> <<Scalar(i)>>]]
\* system.columns of one table: m columns, every row naming its table
ColumnsResponse(table, m) ==
    [kind |-> "result", column_names |-> << <<"table">>, <<"name">> >>,
     result_rows |-> [j \in 1..m |-> <<table, Scalar(j)>>]]
ListResponses(q) ==
    IF q.query = "tables"
    THEN {TablesResponse(n) : n \in 0..MaxTables}
            \cup {MetaResponse(0, FALSE), ErrorResponse}
    ELSE {ColumnsResponse(q.table, m) : m \in 0..MaxRespRows}
            \cup {MetaResponse(0, FALSE), ErrorResponse}

\* db_fetchall after the await inside execute, on its fresh cursor: what it
\* returns or raises
FetchallResult(r) ==
    IF r.kind = "error" THEN Raise("QueryError", "")
    ELSE MapAll(fetchall(IF Discarded(r) THEN <<>>
                         ELSE ExtendFrom(<<>>, named_results(r), 1)).ret)

\* a Table object: the record of its row and its columns attribute, [] by default
NewTable(rec) == [rec |-> rec, columns |-> <<>>]
\* table.name
TableName(table) == table.rec.fields[<<"name">>]
\* a plausible slip: one columns list shared by all the tables
SetColumnsShared(tables, k, columns) ==
    [i \in 1..Len(tables) |-> [tables[i] EXCEPT !.columns = columns]]
\* table.columns = columns, for the k-th table of the loop
SetColumns(tables, k, columns) == [tables EXCEPT ![k].columns = columns]

\* a db_fetchall of list_tables up to the await inside execute: a fresh
\* cursor, the scope test, the query handed to the published client; tk is
\* the frame of list_tables
ListFetchall(t, tk, what, table) ==
    LET c == NewCursor(t) IN
        /\ results' = [results EXCEPT ![c] = <<>>]
        /\ lock' = [lock EXCEPT ![c] = 0]
        /\ session_id' = [session_id EXCEPT ![c] = uuid4(c)]
        /\ appended' = [appended EXCEPT ![c] = <<>>]
        /\ delivered' = [delivered EXCEPT ![c] = <<>>]
        /\ task' = [task EXCEPT ![t] =
              IF http_client = 0 THEN Done(tk, Raise("RuntimeError", ""))
              ELSE [tk EXCEPT !.pc = "awaiting",
                       !.sent = Append(@, ListQuery(http_client, uuid4(c), what, table))]]

\* list_tables up to its first await: the table query
StartListTables(t) ==
    /\ task[t].pc = "idle"
    /\ ListFetchall(t, Call("list_tables", NewCursor(t)), "tables", NoTable)
    /\ UNCHANGED <<session, mapper>>

\* the for loop from its k-th table on: the column query of that table, or
\* the return of `tables` when the loop is over
ListLoop(t, tk, k) ==
    IF k > Len(tk.tables)
    THEN /\ task' = [task EXCEPT ![t] = Done(tk, ReturnList(tk.tables))]
         /\ UNCHANGED cursors
    ELSE ListFetchall(t, [tk EXCEPT !.k = k], "columns", TableName(tk.tables[k]))

\* list_tables after an await: the db_fetchall in progress returns or raises;
\* the answer of the table query makes the Table objects, the answer of a
\* column query is assigned to the table of this turn of the loop
ListResume(t, r) ==
    LET tk == [task[t] EXCEPT !.answers = Append(@, r), !.resp = r]
        got == FetchallResult(r)
    IN  IF got.kind = "raise"
        THEN /\ task' = [task EXCEPT ![t] = Done(tk, got)]
             /\ UNCHANGED cursors
        ELSE IF tk.k = 0
        THEN ListLoop(t, [tk EXCEPT !.tables =
                            [i \in 1..Len(got.rows) |-> NewTable(got.rows[i])]], 1)
        ELSE ListLoop(t, [tk EXCEPT !.tables = SetColumns(@, tk.k, got.rows)],
                      tk.k + 1)

\* the client answers the query a list_tables call awaits
ListRespond(t) ==
    /\ task[t].op = "list_tables" /\ task[t].pc = "awaiting"
    /\ \E r \in ListResponses(task[t].sent[Len(task[t].sent)]) : ListResume(t, r)
    /\ UNCHANGED <<session, mapper>>

\* ---------------------------------------------------------- specifications
\* the server: scopes come and go while tools and facade calls run
Next ==
    \/ \E s \in Scopes : EnterScope(s) \/ ClientBuilt(s) \/ ClientFailed(s) \/ ExitScope(s)
    \/ \E t \in ServerTasks :
        \/ StartDbFetchone(t) \/ StartDbFetchall(t) \/ StartExecuteQuery(t)
        \/ ClientRespond(t) \/ Return(t)

Spec == Init /\ [][Next]_vars

\* inside one scope, with one cursor that all tasks share
InitInScope(tasks) ==
    /\ http_pool = 1 /\ http_client = 1 /\ main_http_client = 0
    /\ debug = TRUE
    /\ pools = [p \in Scopes |-> IF p = 1 THEN "live" ELSE "unbuilt"]
    /\ scope = [s \in Scopes |-> IF s = 1 THEN "active" ELSE "idle"]
    /\ results = [c \in {SharedCursor} \cup tasks |-> <<>>]
    /\ lock = [c \in {SharedCursor} \cup tasks |-> 0]
    /\ session_id = [c \in {SharedCursor} \cup tasks |-> IF c = SharedCursor THEN 1 ELSE 0]
    /\ task = [t \in tasks |-> IdleTask]
    /\ appended = [c \in {SharedCursor} \cup tasks |-> <<>>]
    /\ delivered = [c \in {SharedCursor} \cup tasks |-> <<>>]
    /\ row = <<>> /\ record = NoRecord

\* before the first scope is entered
InitOutOfScope(tasks) ==
    InitIdle(tasks) /\ debug = TRUE /\ row = <<>> /\ record = NoRecord

\* tasks drive the shared cursor: execute, fetchone, fetchall
InitCursor == InitInScope(CursorTasks)

NextCursor ==
    \E t \in CursorTasks :
        \/ StartExecute(t) \/ StartFetchone(t) \/ StartFetchall(t)
        \/ ClientRespond(t) \/ ExtendStep(t)

SpecCursor == InitCursor /\ [][NextCursor]_vars

\* the shared cursor driven inside a scope or before any scope is entered
InitExecute == InitCursor \/ InitOutOfScope(CursorTasks)

SpecExecute == InitExecute /\ [][NextCursor]_vars

\* the same with scheduling: a query in flight is answered, by a result or an
\* exception, and the event loop resumes its task; a task inside the lock's
\* block, which holds no await, runs on
LiveTasks == 1..MaxLiveOps
InitCursorLive == InitInScope(LiveTasks)

NextCursorLive ==
    \E t \in LiveTasks :
        \/ StartExecute(t) \/ StartFetchone(t) \/ StartFetchall(t)
        \/ ClientRespond(t) \/ ExtendStep(t)

FairCursor ==
    \A t \in LiveTasks : WF_vars(ClientRespond(t)) /\ WF_vars(ExtendStep(t))

SpecCursorLive == InitCursorLive /\ [][NextCursorLive]_vars /\ FairCursor

\* facade calls run beside executes on the shared cursor
InitFacade == InitInScope(FacadeTasks)

NextFacade ==
    \E t \in FacadeTasks :
        \/ StartExecute(t)
        \/ (CanStartShared(t) /\ StartDbFetchone(t))
        \/ (CanStartShared(t) /\ StartDbFetchall(t))
        \/ ClientRespond(t) \/ ExtendStep(t)

SpecFacade == InitFacade /\ [][NextFacade]_vars

\* the mapper alone, on every row of the bounded input set
InitMapper ==
    /\ InitIdle(ServerTasks) /\ debug = TRUE
    /\ row \in Rows /\ record = NoRecord

NextMapper == MapRow

SpecMapper == InitMapper /\ [][NextMapper]_vars

\* db_fetchone / db_fetchall calls in flight together, inside a scope or
\* before any scope is entered, answered with rows of any kind
CallTasks == 1..MaxInvocations
InitCalls == InitInScope(CallTasks) \/ InitOutOfScope(CallTasks)

NextCalls ==
    \E t \in CallTasks :
        StartDbFetchone(t) \/ StartDbFetchall(t) \/ ClientAnswers(t)

SpecCalls == InitCalls /\ [][NextCalls]_vars

\* a list_tables call inside one scope
InitTables == InitInScope(ListTasks)

NextTables == \E t \in ListTasks : StartListTables(t) \/ ListRespond(t)

SpecTables == InitTables /\ [][NextTables]_vars

\* ------------------------------------------------------------ claims
FacadeOps == {"db_fetchone", "db_fetchall"}
Shared == SharedCursor

\* C1: after a with_clickhouse scope exits, whether its body returned or
\* raised, the pool has been cleared and both published references,
\* http_pool and http_client, are None.
C1_ExitResetsPoolAndClient ==
    [][\A s \in Scopes :
          (scope[s] = "active" /\ scope'[s] \in {"exited", "raised"})
              => (http_pool' = 0 /\ http_client' = 0 /\ pools'[s] = "cleared")]_vars

\* C2: a db_fetchone / db_fetchall call made while no scope is active (none
\* entered yet, or every one exited) fails with the scope error and sends no
\* query; a query reaches a client only while its pool is live.
C2_OutOfScopeFails ==
    \A t \in DOMAIN task :
        (task[t].op \in FacadeOps /\ ~task[t].entered) =>
            /\ task[t].sent = <<>>
            /\ task[t].pc = "done" /\ task[t].ret = Raise("RuntimeError", "")

\* C3: an execute_query call made while a scope is active sends its query,
\* with the timeout setting, to the client that scope published, and returns
\* the response's column names and rows.
C3_ToolReachesPublishedClient ==
    \A t \in DOMAIN task :
        (task[t].op = "execute_query" /\ task[t].active /\ task[t].pc = "done") =>
            /\ Len(task[t].sent) = 1
            /\ task[t].sent[1].client = task[t].published
            /\ task[t].sent[1].timeout
            /\ task[t].resp.kind = "result" =>
                  task[t].ret = ReturnDict(task[t].resp.column_names,
                                           task[t].resp.result_rows)

\* C4: every failure of an execute_query call made while a scope is active
\* reaches the caller as a ToolError carrying the underlying error's message.
C4_ToolFailsWithToolError ==
    \A t \in DOMAIN task :
        (task[t].op = "execute_query" /\ task[t].active /\ task[t].ret.kind = "raise") =>
            (task[t].ret.exc = "ToolError" /\ task[t].ret.cause # "")

\* the calls made so far on the shared cursor
Started == {t \in DOMAIN task : task[t].pc # "idle"}
DataExecuteDone(t) ==
    /\ task[t].op = "execute" /\ task[t].pc = "done"
    /\ task[t].resp.kind = "result" /\ ~IsMeta(task[t].resp)
Occurrences(buf, r) == Cardinality({j \in 1..Len(buf) : buf[j] = r})

\* C5: when the only calls on a shared cursor are M executes, run in any
\* interleaving, each with a non-meta response, the buffer afterwards holds
\* every row of every response exactly once and nothing else: M*k rows when
\* each response has k rows.
C5_ConcurrentExecutesKeepAllRows ==
    (\A t \in Started : DataExecuteDone(t)) =>
        /\ \A t \in Started : \A i \in 1..Len(task[t].resp.result_rows) :
              Occurrences(results[Shared], named_results(task[t].resp)[i]) = 1
        /\ \A j \in 1..Len(results[Shared]) :
              \E t \in Started : \E i \in 1..Len(task[t].resp.result_rows) :
                  results[Shared][j] = named_results(task[t].resp)[i]
        /\ \A k \in 0..MaxRespRows :
              (\A t \in Started : Len(task[t].resp.result_rows) = k)
                  => Len(results[Shared]) = Cardinality(Started) * k

\* two executes of two rows each were in flight together: the one called
\* second was answered first
C5_Witness ==
    /\ Started = {1, 2}
    /\ \A t \in Started : DataExecuteDone(t) /\ Len(task[t].resp.result_rows) = 2
    /\ Len(results[Shared]) = 4
    /\ results[Shared][1] = named_results(task[2].resp)[1]

\* a step in which task t calls fetchone / fetchall on the shared cursor
FetchStep(t, op) == task[t].pc = "idle" /\ task'[t].op = op
\* the rows inserted into the shared cursor and not yet handed out, oldest first
Unfetched ==
    SubSeq(appended[Shared], Len(delivered[Shared]) + 1, Len(appended[Shared]))

\* C6: fetchone returns the oldest row inserted and not yet handed out and
\* removes exactly that row; when every inserted row has been handed out (after
\* N calls on a buffer of N rows) it returns None and leaves the buffer empty.
C6_FetchoneFifo ==
    [][\A t \in DOMAIN task :
          FetchStep(t, "fetchone") =>
              IF Unfetched # <<>>
              THEN /\ task'[t].ret = ReturnRow(Head(Unfetched))
                   /\ results'[Shared] = Tail(results[Shared])
                   /\ Len(results[Shared]) = Len(Unfetched)
              ELSE /\ task'[t].ret = ReturnNone
                   /\ results[Shared] = <<>> /\ results'[Shared] = <<>>]_vars

\* an execute of two rows, then three fetchone calls: first row, second row, None
C6_Witness ==
    /\ DataExecuteDone(1) /\ Len(task[1].resp.result_rows) = 2
    /\ \A t \in {2, 3, 4} : task[t].op = "fetchone" /\ task[t].pc = "done"
    /\ task[2].ret = ReturnRow(named_results(task[1].resp)[1])
    /\ task[3].ret = ReturnRow(named_results(task[1].resp)[2])
    /\ task[4].ret = ReturnNone
    /\ results[Shared] = <<>>

\* the fetch calls that returned the row r
FetchedBy(r) ==
    {t \in DOMAIN task :
        /\ task[t].op \in {"fetchone", "fetchall"}
        /\ \E i \in 1..Len(task[t].ret.rows) : task[t].ret.rows[i] = r}

\* every row appended is in the buffer or was returned by one fetch, never both
C7_EveryRowOnce ==
    \A i \in 1..Len(appended[Shared]) :
        Cardinality(FetchedBy(appended[Shared][i]))
            + Occurrences(results[Shared], appended[Shared][i]) = 1

\* C7: fetchall returns everything inserted and not yet handed out, in
\* insertion order, and leaves the buffer empty (so a second fetchall with no
\* execute in between returns an empty list); with executes running beside it,
\* every appended row is returned by exactly one fetch, none twice, none dropped.
C7_FetchallDrainsOnce ==
    /\ []C7_EveryRowOnce
    /\ [][\A t \in DOMAIN task :
            FetchStep(t, "fetchall") =>
                /\ task'[t].ret = ReturnList(Unfetched)
                /\ results'[Shared] = <<>>]_vars

\* an execute of two rows, a fetchall that returns both, a fetchall that
\* returns none
C7_Witness ==
    /\ DataExecuteDone(1) /\ Len(task[1].resp.result_rows) = 2
    /\ task[2].op = "fetchall" /\ task[2].ret = ReturnList(named_results(task[1].resp))
    /\ task[3].op = "fetchall" /\ task[3].ret = ReturnList(<<>>)

MetaDone(t) ==
    task[t].pc = "done" /\ task[t].resp.kind = "result" /\ IsMeta(task[t].resp)
\* no row with the marker column is, or ever was, in a buffer; a facade call
\* answered by a meta response buffered nothing and gave [] or None
C8_NoPseudoRow ==
    /\ \A c \in DOMAIN appended : \A i \in 1..Len(appended[c]) :
          ~DictHas(appended[c][i], Marker)
    /\ \A c \in DOMAIN results : \A i \in 1..Len(results[c]) :
          ~DictHas(results[c][i], Marker)
    /\ \A t \in DOMAIN task :
          MetaDone(t) =>
              /\ task[t].op = "db_fetchall" => task[t].ret = ReturnList(<<>>)
              /\ task[t].op = "db_fetchone" => task[t].ret = ReturnNone
              /\ task[t].op \in FacadeOps => appended[task[t].cur] = <<>>

\* C8: when the response of an execute carries the marker column
\* total_rows_to_read, execute leaves the cursor's buffer as it was and no row
\* of that response is ever buffered, so db_fetchall on such a query returns an
\* empty list and db_fetchone returns None.
C8_MetaResponseDiscarded ==
    /\ []C8_NoPseudoRow
    /\ [][\A t \in DOMAIN task :
            (task[t].pc = "awaiting" /\ MetaDone(t)')
                => results'[task[t].cur] = results[task[t].cur]]_vars

\* the shared buffer holds rows, an execute answered by a meta response has
\* left them alone, and a db_fetchall answered by a meta response gave []
C8_Witness ==
    /\ DataExecuteDone(1) /\ results[Shared] = named_results(task[1].resp)
    /\ Len(results[Shared]) = 2
    /\ task[2].op = "execute" /\ MetaDone(2)
    /\ task[3].op = "db_fetchall" /\ MetaDone(3) /\ task[3].ret = ReturnList(<<>>)

\* --------------------------------------------------------- mapper claims
\* the same row with its i-th key renamed from "@k" to "k"
Renamed(r, i) == [r EXCEPT ![i] = <<RemovePrefixSigil(r[i][1]), r[i][2]>>]
MapperDone == record.kind # "pending"

\* C9: for every row and every key k, from_row on a row holding the key "@"+k
\* gives the same outcome as from_row on the same row with that key named k,
\* also when k holds the separator ("@a.b" is handled as "a.b").
C9_SigilSameAsPlain ==
    MapperDone =>
        \A i \in 1..Len(row) :
            (StartsWithSigil(row[i][1]) /\ ~DictHas(row, Tail(row[i][1])))
                => record = from_row(Renamed(row, i))

Dotted(r) == {i \in 1..Len(r) : HasSep(r[i][1])}
Undotted(r) == {i \in 1..Len(r) : ~HasSep(r[i][1])}
Parents(r) == {Split(r[i][1])[1] : i \in Dotted(r)}
ChildrenOf(r, p) == {i \in Dotted(r) : Split(r[i][1])[1] = p}
\* every key is a plain name or of the form parent.child
ParentChildRow(r) ==
    \A i \in 1..Len(r) : ~StartsWithSigil(r[i][1]) /\ Len(Split(r[i][1])) <= 2

\* C10: for a row whose keys are plain or of the form parent.child, from_row
\* builds the record from a mapping in which each parent maps to the nested
\* mapping of all its children, no dotted key remains, every undotted key that
\* is no parent keeps its value, and a flat value under a parent's key is
\* replaced by the nested mapping.
C10_NestedWins ==
    (MapperDone /\ ParentChildRow(row)) =>
        /\ record.kind = "record"
        /\ DOMAIN record.fields =
              Parents(row) \cup {row[i][1] : i \in Undotted(row)}
        /\ \A k \in DOMAIN record.fields : ~HasSep(k)
        /\ \A p \in Parents(row) :
              /\ record.fields[p].kind = "dict"
              /\ DictKeys(record.fields[p].items) =
                    {Split(row[i][1])[2] : i \in ChildrenOf(row, p)}
              /\ \A i \in ChildrenOf(row, p) :
                    DictGet(record.fields[p].items, Split(row[i][1])[2]) = row[i][2]
        /\ \A i \in Undotted(row) :
              row[i][1] \notin Parents(row) => record.fields[row[i][1]] = row[i][2]

C10_Witness ==
    /\ record.kind = "record"
    /\ ParentChildRow(row)
    /\ {<<"a">>, <<"a", ".", "b">>, <<"a", ".", "c">>} \subseteq DictKeys(row)
    /\ record.fields[<<"a">>].kind = "dict"

\* the cursor's lock is held only by a task inside the lock's block of
\* execute: never by a task suspended at its await, nor by one that returned
LockOnlyInsideBlock ==
    /\ \A c \in DOMAIN lock :
          lock[c] # 0 => (task[lock[c]].pc = "extend" /\ task[lock[c]].cur = c)
    /\ \A t \in DOMAIN task :
          task[t].pc \in {"idle", "awaiting", "done"} => lock[task[t].cur] # t

\* C17: no HTTPDictCursor operation holds the cursor's lock across a
\* suspension point (it is taken after the client's response has arrived and
\* released before the operation returns), so concurrent execute / fetchone /
\* fetchall tasks on one cursor cannot deadlock: every call made completes
\* once the client has answered.
C17_NoLockAcrossAwait ==
    /\ []LockOnlyInsideBlock
    /\ \A t \in LiveTasks :
          (task[t].pc \in {"awaiting", "extend"}) ~> (task[t].pc = "done")

\* one execute is inside the lock's block, its first row appended, while
\* another is suspended at its await
C17_Witness ==
    /\ task[1].op = "execute" /\ task[1].pc = "awaiting"
    /\ task[2].op = "execute" /\ task[2].pc = "extend" /\ lock[Shared] = 2
    /\ Len(results[Shared]) = 1

\* a step in which an execute of task t on the shared cursor fails: at its
\* scope test, or at its await when the client's query raises
ExecuteFails(t) ==
    /\ task[t].pc \in {"idle", "awaiting"}
    /\ task'[t].op = "execute" /\ task'[t].pc = "done"
    /\ task'[t].ret.kind = "raise"

\* C18: an execute that fails, on the scope test or because the client's
\* query raises, leaves the cursor's buffer exactly as it was: the rows of
\* earlier executes stay in it, in their order.
C18_FailedExecuteKeepsBuffer ==
    [][\A t \in DOMAIN task :
          ExecuteFails(t) =>
              /\ task'[t].ret.exc \in {"RuntimeError", "QueryError"}
              /\ results'[Shared] = results[Shared]
              /\ lock'[Shared] = lock[Shared]]_vars

\* an execute buffered two rows, a later execute failed in the client, and
\* a fetchall then returned the two rows in their order
C18_Witness ==
    /\ DataExecuteDone(1) /\ Len(task[1].resp.result_rows) = 2
    /\ task[2].op = "execute" /\ task[2].ret = Raise("QueryError", "")
    /\ task[3].op = "fetchall"
    /\ task[3].ret = ReturnList(named_results(task[1].resp))

\* how many rows of its response the execute of task t has appended so far
AppendedBy(t) ==
    IF task[t].op # "execute" \/ task[t].resp.kind # "result" \/ IsMeta(task[t].resp)
    THEN 0
    ELSE IF task[t].pc = "extend" THEN task[t].k - 1
    ELSE IF task[t].pc = "done" THEN Len(task[t].resp.result_rows)
    ELSE 0
\* the rows a response has put into the shared cursor so far stand next to
\* each other, in response order, in the sequence of all rows appended to it;
\* the buffer is what of that sequence no fetch has taken yet
BlocksContiguous ==
    /\ results[Shared] = Unfetched
    /\ \A t \in DOMAIN task :
          AppendedBy(t) > 0 =>
              \E o \in 0..(Len(appended[Shared]) - AppendedBy(t)) :
                  \A i \in 1..AppendedBy(t) :
                      appended[Shared][o + i] = named_results(task[t].resp)[i]

\* C19: under any interleaving of concurrent executes on one cursor, the rows
\* of each single response occupy one contiguous block of the buffer, in
\* response order, and the blocks stand in the order in which the responses
\* arrived: the first row of a response goes behind every row appended before
\* its arrival.
C19_ResponseBlocksContiguous ==
    /\ []BlocksContiguous
    /\ [][\A t \in DOMAIN task :
            (task[t].pc = "awaiting" /\ AppendedBy(t)' > 0) =>
                /\ AppendedBy(t)' = 1
                /\ appended'[Shared] =
                      Append(appended[Shared], named_results(task'[t].resp)[1])
                /\ results'[Shared] =
                      Append(results[Shared], named_results(task'[t].resp)[1])]_vars

\* three executes in flight: the second was answered first and has appended
\* its two rows, the first has appended one of its two rows behind them, the
\* third is still at its await
C19_Witness ==
    /\ task[2].op = "execute" /\ task[2].pc = "done"
    /\ task[1].op = "execute" /\ task[1].pc = "extend"
    /\ task[3].op = "execute" /\ task[3].pc = "awaiting"
    /\ results[Shared] =
          named_results(task[2].resp) \o <<named_results(task[1].resp)[1]>>
    /\ Len(results[Shared]) = 3

\* ------------------------------------------------------ facade claims
\* the rows of its response that a finished facade call hands to the mapper:
\* db_fetchone the first, db_fetchall all of them
RowsToMap(t) ==
    IF task[t].resp.kind # "result" \/ IsMeta(task[t].resp) THEN <<>>
    ELSE IF task[t].op = "db_fetchone" /\ task[t].resp.result_rows # <<>>
    THEN <<named_results(task[t].resp)[1]>>
    ELSE named_results(task[t].resp)
Unmapped(t) ==
    {i \in 1..Len(RowsToMap(t)) : from_row(RowsToMap(t)[i]).kind # "record"}
FirstUnmapped(t) == CHOOSE i \in Unmapped(t) : \A j \in Unmapped(t) : i <= j

\* a db_fetchall call made in an active scope has returned or raised, and
\* its query was answered by a result without the marker column, of rows
\* that the mapper takes
DataFetchallDone(t) ==
    /\ task[t].op = "db_fetchall" /\ task[t].active /\ task[t].pc = "done"
    /\ task[t].resp.kind = "result" /\ ~IsMeta(task[t].resp)
    /\ Unmapped(t) = {}

\* C11: in an active scope db_fetchall returns exactly one mapped record per
\* row of the query's non-meta response, in response order, and returns an
\* empty list, without raising, when the response has no rows.
C11_FetchallMapsEveryRow ==
    \A t \in DOMAIN task :
        DataFetchallDone(t) =>
            /\ task[t].ret.kind = "list"
            /\ Len(task[t].ret.rows) = Len(task[t].resp.result_rows)
            /\ \A i \in 1..Len(task[t].resp.result_rows) :
                  task[t].ret.rows[i] = from_row(named_results(task[t].resp)[i])

\* one db_fetchall gave the two records of its two rows, first row first;
\* another, answered with no rows, gave the empty list
C11_Witness ==
    /\ DataFetchallDone(1) /\ Len(task[1].resp.result_rows) = 2
    /\ Len(task[1].ret.rows) = 2
    /\ task[1].ret.rows[1].fields[<<"r">>] = Nested(<< <<<<"id">>, Scalar(RowId(1, 1))>> >>)
    /\ task[1].ret.rows[2].fields[<<"r">>] = Nested(<< <<<<"id">>, Scalar(RowId(1, 2))>> >>)
    /\ DataFetchallDone(2) /\ task[2].resp.result_rows = <<>>
    /\ task[2].ret = ReturnList(<<>>)

\* C14: a db_fetchone / db_fetchall call sends its query to the client at
\* most once; when its execute fails (the scope test, or the client's query
\* raising) or the mapping of a row fails, the call raises that failure,
\* never an empty list or None in its place.
C14_FacadeSendsOnceAndPropagates ==
    \A t \in DOMAIN task :
        task[t].op \in FacadeOps =>
            /\ Len(task[t].sent) <= 1
            /\ task[t].pc = "done" =>
                  /\ task[t].sent = <<>> => task[t].ret = Raise("RuntimeError", "")
                  /\ (task[t].sent # <<>> /\ task[t].resp.kind = "error")
                        => task[t].ret = Raise("QueryError", "")
                  /\ (task[t].sent # <<>> /\ Unmapped(t) # {})
                        => task[t].ret =
                              Raise(from_row(RowsToMap(t)[FirstUnmapped(t)]).kind, "")

\* the client's query raised in one call and the mapper rejected a row in
\* another: each call, its query sent once, raised that failure
C14_Witness ==
    /\ \A t \in {1, 2} : task[t].pc = "done" /\ Len(task[t].sent) = 1
    /\ task[1].op = "db_fetchone" /\ task[1].resp.kind = "error"
    /\ task[1].ret = Raise("QueryError", "")
    /\ task[2].op = "db_fetchall" /\ Len(task[2].resp.result_rows) = 2
    /\ task[2].ret = Raise("ValueError", "")

\* the facade calls made so far
FacadeCalls == {t \in DOMAIN task : task[t].op \in FacadeOps}
\* the records of the rows of call t's own response
OwnRecords(t) ==
    {from_row(named_results(task[t].resp)[i]) : i \in 1..Len(task[t].resp.result_rows)}
Returned(t) ==
    IF task[t].ret.kind \in {"row", "list"}
    THEN {task[t].ret.rows[i] : i \in 1..Len(task[t].ret.rows)} ELSE {}

\* C15: every db_fetchone / db_fetchall call has a cursor of its own, with
\* its own buffer and session id, so whatever the interleaving of the calls in
\* flight on the one client, a call returns records of rows of its own
\* response only, no row reaches another call and none is returned twice.
C15_FreshCursorPerCall ==
    /\ \A t \in FacadeCalls : \A u \in FacadeCalls \ {t} :
          /\ task[t].cur # task[u].cur
          /\ session_id[task[t].cur] # session_id[task[u].cur]
          /\ (task[t].sent # <<>> /\ task[u].sent # <<>>)
                => task[t].sent[1].session # task[u].sent[1].session
          /\ Returned(t) \cap Returned(u) = {}
    /\ \A t \in FacadeCalls :
          /\ task[t].sent # <<>> => task[t].sent[1].session = session_id[task[t].cur]
          /\ Returned(t) \subseteq OwnRecords(t)
          /\ Cardinality(Returned(t)) = Len(task[t].ret.rows)
          /\ \A i \in 1..Len(delivered[task[t].cur]) :
                delivered[task[t].cur][i][1] \in
                    {named_results(task[t].resp)[j] :
                        j \in 1..Len(task[t].resp.result_rows)}

\* the call made first is still in flight when the call made second returns
\* the two records of its own response
C15_Witness ==
    /\ task[1].op = "db_fetchone" /\ task[1].pc = "awaiting"
    /\ task[1].sent[1].session = 2
    /\ task[2].op = "db_fetchall" /\ task[2].pc = "done"
    /\ task[2].sent[1].session = 3
    /\ Len(task[2].ret.rows) = 2 /\ Returned(2) = OwnRecords(2)

\* ------------------------------------------------- list_tables claims
\* the rows the table query of call t was answered with
TableRows(t) ==
    IF IsMeta(task[t].answers[1]) THEN <<>> ELSE named_results(task[t].answers[1])
\* the rows the q-th query of call t was answered with
AnswerRows(t, q) ==
    IF IsMeta(task[t].answers[q]) THEN <<>> ELSE named_results(task[t].answers[q])
TableRowName(r) == DictGet(r, <<"name">>)

\* C12: list_tables issues one table query and then one column query per
\* returned table, each with that table's own name as its argument; the
\* result has one Table per row of the table query, in order, and the columns
\* of every Table are the rows returned by the column query issued for it,
\* none of them a row of another table.
C12_ListTablesPairsColumns ==
    \A t \in DOMAIN task :
        task[t].op = "list_tables" =>
            /\ \A q \in 1..Len(task[t].sent) :
                  IF q = 1
                  THEN task[t].sent[q].query = "tables"
                  ELSE /\ task[t].sent[q].query = "columns"
                       /\ q - 1 <= Len(TableRows(t))
                       /\ task[t].sent[q].table = TableRowName(TableRows(t)[q - 1])
            /\ (task[t].pc = "done" /\ task[t].ret.kind = "list") =>
                  /\ Len(task[t].sent) = 1 + Len(TableRows(t))
                  /\ Len(task[t].ret.rows) = Len(TableRows(t))
                  /\ \A k \in 1..Len(TableRows(t)) :
                        /\ task[t].ret.rows[k].rec = from_row(TableRows(t)[k])
                        /\ task[t].ret.rows[k].columns =
                              from_rows(AnswerRows(t, k + 1)).list
                        /\ \A j \in 1..Len(task[t].ret.rows[k].columns) :
                              task[t].ret.rows[k].columns[j].fields[<<"table">>]
                                  = TableRowName(TableRows(t)[k])

\* a database of two tables, the first with two columns and the second with
\* one: three queries, two Tables, each with its own columns
C12_Witness ==
    /\ task[1].op = "list_tables" /\ task[1].pc = "done"
    /\ Len(task[1].sent) = 3 /\ Len(task[1].ret.rows) = 2
    /\ Len(task[1].ret.rows[1].columns) = 2
    /\ Len(task[1].ret.rows[2].columns) = 1
    /\ task[1].ret.rows[1].columns[1].fields[<<"table">>] = Scalar(1)
    /\ task[1].ret.rows[2].columns[1].fields[<<"table">>] = Scalar(2)

\* ------------------------------------------------------- scope claims
\* C13: if building the pool or the client fails on entry to with_clickhouse,
\* the failure leaves with_clickhouse to whatever entered the scope and the
\* body never runs: a scope whose entry failed stays failed, a failure on
\* entry comes only from the pool's or the client's construction, and a body
\* starts only from a step that built and published the scope's client.
C13_FailedEntryNeverRunsBody ==
    [][\A s \in Scopes :
          /\ scope[s] = "failed" => scope'[s] = "failed"
          /\ (scope'[s] = "failed" /\ scope[s] # "failed")
                => scope[s] \in {"idle", "building"}
          /\ (scope'[s] = "active" /\ scope[s] # "active")
                => (scope[s] = "building" /\ http_client' = s)]_vars

\* the pool's construction failed on one entry, the client's on another
C13_Witness ==
    /\ scope[1] = "failed" /\ pools[1] = "unbuilt"
    /\ scope[2] = "failed" /\ pools[2] = "live"

\* the pools that were created and not yet cleared
LivePools == {p \in Scopes : pools[p] = "live"}

\* C16: whatever the sequence of with_clickhouse entries and exits, an entry
\* made while another scope is still active included, there is at most one
\* pool that was created and not yet cleared, and a published client is
\* bound to that pool, which is the published one.
C16_AtMostOneLivePair ==
    /\ Cardinality(LivePools) <= 1
    /\ http_client # 0 => (pools[http_client] = "live" /\ http_pool = http_client)

\* C20: when the client's construction fails after the pool was built, no
\* pool stays published or uncleared once the failure has left
\* with_clickhouse: http_pool is None and the pool is cleared, as after a
\* normal exit.
C20_ClientFailureClearsPool ==
    [][\A s \in Scopes :
          (scope[s] = "building" /\ scope'[s] = "failed")
              => (http_pool' = 0 /\ pools'[s] = "cleared")]_vars

=============================================================================
